---------------------------- MODULE Spec2Model ----------------------------
(***************************************************************************)
(* Model of src/app.py: the dispatch-log watcher that sends an SMS to the  *)
(* subscribers of the vehicle named on each new log line.                  *)
(*                                                                         *)
(* Abstractions, stated once:                                              *)
(*  - a date string (YYYYMMDD, YYYY.MM.DD) is a day number; the log file   *)
(*    and the subscriber file of a day are named by that number;           *)
(*  - the wall clock is a day number and whether 09:00 has passed;         *)
(*  - a character of a line or phone is a token (one string per symbol);   *)
(*  - a log file is the sequence of the entries written to it, an entry    *)
(*    being a complete line or, when the writer flushes in the middle of   *)
(*    a line, a part of one; a file offset counts entries, not bytes;      *)
(*  - the timestamp prefix of a status entry is left out;                  *)
(*  - Observer.join(timeout=2) may return before the observer's thread     *)
(*    has ended: the model lets the joining thread go on at any time.      *)
(***************************************************************************)
EXTENDS Integers, Sequences, FiniteSets, TLC

(***************************************************************************)
(* Bounds of the model.                                                    *)
(***************************************************************************)
\* days 0..MaxDay are modelled
MaxDay == 1
\* a day's log file holds at most this many entries
MaxLines == 2
\* Observer objects alive at once (started, or stopped with a handler still running)
MaxObservers == 2
\* capacity of the dedup deque, scaled down from the source's 200 (app.py:291)
DedupMaxLen == 3
\* capacity of the status deque, scaled down from the source's 80 (app.py:290)
StatusMaxLen == 2

Days == 0..MaxDay
ObsIds == 1..MaxObservers
\* a path at which no file exists, and a file holding the given records
NoFile == [exists |-> FALSE, recs |-> <<>>]
JsonFile(recs) == [exists |-> TRUE, recs |-> recs]
\* Python's None, as the observer field and as the parser's result
NoObserver == 0
None == <<"None">>
\* the store lock is held by no thread
NoHolder == "nobody"
\* no _handle_line call is in progress
NoCall == [at |-> "idle", vehicle |-> None, targets |-> <<>>, calls |-> <<>>]

VARIABLES
  now,          \* now_tz(): [day, post9]
  running,      \* the process is up (AppState constructed)
  data_dir,     \* DATA_DIR: day -> content of subscribers_<day>.json, or NoFile
  archive_dir,  \* ARCHIVE_DIR: day -> content of subscribers_<day>.json, or NoFile
  today,        \* Storage.today (json_path follows it)
  state,        \* Storage.state: the dict, as its records in insertion order
  logs,         \* LOG_DIR: day -> the lines of that day's log file
  current_file, \* AppState.current_file (the day of the file)
  tail_pos,     \* AppState._tail_pos
  observer,     \* AppState.observer: an Observer id, or NoObserver
  ost,          \* Observer id -> "free" | "new" | "started" | "stopped"
  opc,          \* Observer id -> where its thread is inside on_modified/tail_new_lines
  opath,        \* Observer id -> local `path` of tail_new_lines
  oread,        \* Observer id -> locals of tail_new_lines: [pos, lines, idx]
  pending,      \* Observer id -> days whose log file has an undelivered modified event
  mutex,        \* AppState._mutex: 0, or the Observer id whose thread holds it
  pc,           \* scheduler/UI thread -> where it is inside check_rollover/reset_at_9
  dedup,        \* AppState._dedup
  dedup_set,    \* AppState._dedup_set
  status,       \* AppState._status, newest first
  sent,         \* the sms.send calls of the latest _handle_line call: <<phone, text, ok>>
  handed,       \* history: day -> line number -> times that line was handed to _handle_line
  at_start,     \* history: day -> lines its log file held when the process was constructed
  skipped,      \* history: day -> lines its log file held when the constructor or
                \* check_rollover made it the tailed file
  open,         \* day -> the indices of the entries of its log file that do not end
                \* in a newline (written by a flush in the middle of a line)
  lock,         \* Storage.lock: NoHolder, or the thread that holds it
  hcall         \* the locals of a _handle_line call in progress, see NoCall

vars == <<now, running, data_dir, archive_dir, today, state, logs, current_file,
          tail_pos, observer, ost, opc, opath, oread, pending, mutex, pc,
          dedup, dedup_set, status, sent, handed, at_start, skipped, open, lock, hcall>>

storeVars == <<data_dir, archive_dir, today, state>>
tailVars == <<current_file, tail_pos, observer, ost, opc, opath, oread, pending, mutex>>
lineVars == <<dedup, dedup_set, sent, handed, at_start, skipped>>

Range(s) == {s[i] : i \in 1..Len(s)}

(***************************************************************************)
(* Vehicles and phones.                                                    *)
(***************************************************************************)
\* VEHICLES: the nine allow-listed names, one token per syllable block
VEHICLES ==
  << <<"geum", "am", "gu", "geup", "1">>, <<"geum", "am", "gu", "geup", "2">>,
     <<"geum", "am", "peom", "peu", "1">>, <<"geum", "am", "peom", "peu", "2">>,
     <<"geum", "am", "mul", "taeng", "keu">>,
     <<"gul", "jeol">>, <<"sa", "da", "ri">>, <<"gu", "jo">>, <<"dae", "eung", "dan">> >>

VEHICLE_SET == Range(VEHICLES)

Ladder == <<"sa", "da", "ri">>
Aerial == <<"gul", "jeol">>

DigitTokens == {"0", "1", "2", "3", "4", "5", "6", "7", "8", "9"}

\* re.sub(r"\D", "", phone)
RECURSIVE DigitsOnly(_)
DigitsOnly(s) ==
  IF s = <<>> THEN <<>>
  ELSE IF Head(s) \in DigitTokens THEN <<Head(s)>> \o DigitsOnly(Tail(s))
       ELSE DigitsOnly(Tail(s))

valid_phone(phone) == Len(DigitsOnly(phone)) \in {10, 11}

PhoneA == <<"0", "1", "0", "1", "1", "1", "1", "2", "2", "2", "2">>
PhoneB == <<"0", "1", "0", "3", "3", "3", "3", "4", "4", "4", "4">>
Phones == {PhoneA, PhoneB}

(***************************************************************************)
(* Clock.                                                                  *)
(***************************************************************************)
today_str_compact == now.day
current_log_path == now.day
now_iso == now

(***************************************************************************)
(* Storage.                                                                *)
(***************************************************************************)
IndexOf(recs, phone) ==
  IF \E i \in 1..Len(recs) : recs[i].phone = phone
  THEN CHOOSE i \in 1..Len(recs) : recs[i].phone = phone
  ELSE 0

RemoveAt(s, i) == SubSeq(s, 1, i - 1) \o SubSeq(s, i + 1, Len(s))

\* Storage._persist: the whole dict overwrites the day's file; ok = the write succeeds
Persist(dir, day, recs, ok) ==
  IF ok THEN [dir EXCEPT ![day] = JsonFile(recs)] ELSE dir

\* the dict after self.state[phone] = {...}: an existing key keeps its place
UpsertState(recs, phone, vehicles, cancel_hold, at) ==
  LET rec == [phone |-> phone, vehicles |-> vehicles,
              cancel_hold_until_09 |-> cancel_hold, created_at |-> at]
      i == IndexOf(recs, phone)
  IN IF i = 0 THEN Append(recs, rec) ELSE [recs EXCEPT ![i] = rec]

RemoveState(recs, phone) ==
  LET i == IndexOf(recs, phone) IN IF i = 0 THEN recs ELSE RemoveAt(recs, i)

SetCancelHoldState(recs, phone, hold) ==
  LET i == IndexOf(recs, phone)
  IN IF i = 0 THEN recs ELSE [recs EXCEPT ![i].cancel_hold_until_09 = hold]

ListRecords(recs) == recs

\* subscribers_for_vehicle without the test of line 211
RECURSIVE SubscribersOf_IgnoringHold(_, _)
SubscribersOf_IgnoringHold(recs, vehicle) ==
  IF recs = <<>> THEN <<>>
  ELSE LET rec == Head(recs)
           rest == SubscribersOf_IgnoringHold(Tail(recs), vehicle)
       IN IF vehicle \in Range(rec.vehicles) THEN <<rec.phone>> \o rest ELSE rest

\* Storage.subscribers_for_vehicle on the given records
RECURSIVE SubscribersOf(_, _)
SubscribersOf(recs, vehicle) ==
  IF recs = <<>> THEN <<>>
  ELSE LET rec == Head(recs)
           rest == SubscribersOf(Tail(recs), vehicle)
       IN IF vehicle \in Range(rec.vehicles) /\ ~rec.cancel_hold_until_09
          THEN <<rec.phone>> \o rest
          ELSE rest

subscribers_for_vehicle(vehicle) == SubscribersOf(state, vehicle)

\* rotate_to copying the day's file to the archive instead of moving it
RotateTo_Copying(new_day, move_ok, persist_ok) ==
  /\ archive_dir' = IF data_dir[today].exists /\ move_ok
                     THEN [archive_dir EXCEPT ![today] = data_dir[today]]
                     ELSE archive_dir
  /\ today' = new_day
  /\ state' = <<>>
  /\ data_dir' = Persist(data_dir, new_day, <<>>, persist_ok)

\* Storage.rotate_to: move the day's file to the archive (a failed move is
\* swallowed), then switch to new_day with an empty dict and persist it.
\* A failed persist raises after today and state were set.
RotateTo(new_day, move_ok, persist_ok) ==
  LET moved == data_dir[today].exists /\ move_ok
      data1 == IF moved THEN [data_dir EXCEPT ![today] = NoFile] ELSE data_dir
  IN /\ archive_dir' = IF moved THEN [archive_dir EXCEPT ![today] = data_dir[today]]
                       ELSE archive_dir
     /\ today' = new_day
     /\ state' = <<>>
     /\ data_dir' = Persist(data1, new_day, <<>>, persist_ok)

\* Storage.ensure_today
EnsureToday(move_ok, persist_ok) ==
  IF today_str_compact # today
  THEN RotateTo(today_str_compact, move_ok, persist_ok)
  ELSE UNCHANGED storeVars

\* Storage.reset_0900
Reset0900(move_ok, persist_ok) == RotateTo(today_str_compact, move_ok, persist_ok)

(***************************************************************************)
(* Status log.                                                             *)
(***************************************************************************)
\* deque(maxlen).appendleft: the oldest entry, at the right end, is dropped
AppendLeft(q, e) ==
  IF Len(q) >= StatusMaxLen THEN SubSeq(<<e>> \o q, 1, StatusMaxLen) ELSE <<e>> \o q

(***************************************************************************)
(* Line parsing and hashing.                                               *)
(***************************************************************************)
\* the tokens lines are written in, in the order that gives each its code
Alphabet ==
  <<"[", "]", " ", "x", "0", "1", "2", "ho", "geum", "am", "gu", "geup", "peom", "peu",
    "mul", "taeng", "keu", "gul", "jeol", "sa", "da", "ri", "jo", "dae", "eung", "dan">>

TokenCode(t) == CHOOSE i \in 1..Len(Alphabet) : Alphabet[i] = t

HashBase == 32
HashModulus == 1048573

\* line_hash: a digest of the line's characters (SHA-1 in the source; here a
\* polynomial digest, equal for equal lines)
RECURSIVE Digest(_, _)
Digest(line, acc) ==
  IF line = <<>> THEN acc
  ELSE Digest(Tail(line), (acc * HashBase + TokenCode(Head(line))) % HashModulus)

line_hash(line) == Digest(line, Len(line) + 1)

Brackets == {"[", "]"}

\* the start positions of the matches of r"\[([^\[\]]+)\]" in line
BracketStarts(line) ==
  {i \in 1..Len(line) :
     /\ line[i] = "["
     /\ \E j \in (i + 2)..Len(line) :
          /\ line[j] = "]"
          /\ \A k \in (i + 1)..(j - 1) : line[k] \notin Brackets}

\* group 1 of the match that starts at i
BracketContent(line, i) ==
  LET j == CHOOSE j \in (i + 2)..Len(line) :
             /\ line[j] = "]"
             /\ \A k \in (i + 1)..(j - 1) : line[k] \notin Brackets
  IN SubSeq(line, i + 1, j - 1)

\* str.strip() over the modelled alphabet, whose only whitespace is " "
RECURSIVE LStrip(_)
LStrip(s) == IF s # <<>> /\ Head(s) = " " THEN LStrip(Tail(s)) ELSE s

RECURSIVE RStrip(_)
RStrip(s) ==
  IF s # <<>> /\ s[Len(s)] = " " THEN RStrip(SubSeq(s, 1, Len(s) - 1)) ELSE s

Strip(s) == RStrip(LStrip(s))

\* str.replace(" ", "")
RECURSIVE NoSpace(_)
NoSpace(s) ==
  IF s = <<>> THEN <<>>
  ELSE IF Head(s) = " " THEN NoSpace(Tail(s)) ELSE <<Head(s)>> \o NoSpace(Tail(s))

AmbulanceTwo == <<"geum", "am", "gu", "geup", "2">>

\* ALIASES.get(cand, cand)
ALIASES(cand) ==
  IF cand = <<"geum", "am", "gu", "geup", "0", "2">> THEN AmbulanceTwo
  ELSE IF cand = <<"geum", "am", "gu", "geup", "2", "ho">> THEN AmbulanceTwo
  ELSE cand

\* last_bracket_value taking the first match instead of the last
last_bracket_value_First(line) ==
  LET starts == BracketStarts(line)
  IN IF starts = {} THEN None
     ELSE LET first == CHOOSE i \in starts : \A k \in starts : i <= k
          IN ALIASES(NoSpace(Strip(BracketContent(line, first))))

last_bracket_value(line) ==
  LET starts == BracketStarts(line)
  IN IF starts = {} THEN None
     ELSE LET last == CHOOSE i \in starts : \A k \in starts : k <= i
          IN ALIASES(NoSpace(Strip(BracketContent(line, last))))

(***************************************************************************)
(* _handle_line.                                                           *)
(***************************************************************************)
\* deque(maxlen=DedupMaxLen).append: a full deque drops its leftmost entry
DequeAppend(q, h) ==
  IF Len(q) = DedupMaxLen THEN Append(Tail(q), h) ELSE Append(q, h)

\* lines 380-384 without the discard of lines 382-384
DedupRecord_NoEvict(q, set, h) ==
  [dedup |-> DequeAppend(q, h), dedup_set |-> set \cup {h}]

\* lines 380-384: record h, then discard the deque's oldest entry from the
\* set as soon as the deque is full
DedupRecord(q, set, h) ==
  LET q1 == DequeAppend(q, h)
      set1 == set \cup {h}
  IN [dedup |-> q1,
      dedup_set |-> IF Len(q1) = DedupMaxLen THEN set1 \ {q1[1]} ELSE set1]

\* the message text: the fixed tag and the vehicle name
MessageText(vehicle) == <<"[", "chul", "dong", "al", "rim", "]", " ">> \o vehicle

\* the send loop of lines 397-400 ending at the first send that fails
SendAll_StopAtFailure(targets, text, ok) ==
  LET failing == {i \in 1..Len(targets) : ~ok[targets[i]]}
      n == IF failing = {} THEN Len(targets)
           ELSE CHOOSE i \in failing : \A k \in failing : i <= k
  IN [i \in 1..n |-> <<targets[i], text, ok[targets[i]]>>]

\* the sms.send calls of lines 397-400, in order, with what each returned
SendAll(targets, text, ok) ==
  [i \in 1..Len(targets) |-> <<targets[i], text, ok[targets[i]]>>]

CountSent(calls, result) == Cardinality({i \in 1..Len(calls) : calls[i][3] = result})

\* _handle_line with the whole line put into the message text
HandleLine_QuotingLine(q, set, st, recs, line, ok) ==
  LET h == line_hash(line)
      rec == DedupRecord(q, set, h)
      vehicle == last_bracket_value(line)
      targets == SubscribersOf(recs, vehicle)
      calls == SendAll(targets, MessageText(line), ok)
  IN IF h \in set \/ vehicle = None \/ vehicle \notin VEHICLE_SET \/ targets = <<>>
     THEN [dedup |-> q, dedup_set |-> set, status |-> st, sent |-> <<>>]
     ELSE [dedup |-> rec.dedup, dedup_set |-> rec.dedup_set,
           status |-> AppendLeft(st, <<"Send", vehicle, CountSent(calls, TRUE),
                                      CountSent(calls, FALSE)>>),
           sent |-> calls]

\* AppState._handle_line on the given dedup state, status log and records;
\* ok[phone] is what sms.send returns for that phone
HandleLine(q, set, st, recs, line, ok) ==
  LET h == line_hash(line)
      rec == DedupRecord(q, set, h)
      vehicle == last_bracket_value(line)
      targets == SubscribersOf(recs, vehicle)
      calls == SendAll(targets, MessageText(vehicle), ok)
  IN IF h \in set
     THEN [dedup |-> q, dedup_set |-> set, status |-> st, sent |-> <<>>]
     ELSE IF vehicle = None \/ vehicle = <<>> \/ vehicle \notin VEHICLE_SET
     THEN [dedup |-> rec.dedup, dedup_set |-> rec.dedup_set, status |-> st, sent |-> <<>>]
     ELSE IF targets = <<>>
     THEN [dedup |-> rec.dedup, dedup_set |-> rec.dedup_set,
           status |-> AppendLeft(st, <<"Skip", vehicle>>), sent |-> <<>>]
     ELSE [dedup |-> rec.dedup, dedup_set |-> rec.dedup_set,
           status |-> AppendLeft(st, <<"Send", vehicle, CountSent(calls, TRUE),
                                      CountSent(calls, FALSE)>>),
           sent |-> calls]

\* `if line.strip()` of tail_new_lines: a line of whitespace only is skipped
IsBlank(line) == Strip(line) = <<>>

(***************************************************************************)
(* The process: construction and exit.                                     *)
(***************************************************************************)
Threads == {"rollover", "cron", "ui"}

IdleObservers == [i \in ObsIds |-> "idle"]
NoLocals == [pos |-> 0, next |-> 1, last |-> 0]

\* AppState.__init__ (with Storage.__init__ and start_watch) at the current time
Construct(persist_ok) ==
  /\ today' = today_str_compact
  /\ state' = IF data_dir[today_str_compact].exists
              THEN data_dir[today_str_compact].recs ELSE <<>>
  /\ data_dir' = IF data_dir[today_str_compact].exists THEN data_dir
                 ELSE Persist(data_dir, today_str_compact, <<>>, persist_ok)
  /\ current_file' = current_log_path
  /\ tail_pos' = Len(logs[current_log_path])
  /\ observer' = 1
  /\ ost' = [i \in ObsIds |-> IF i = 1 THEN "started" ELSE "free"]
  /\ status' = AppendLeft(<<>>, <<"Watch", current_log_path>>)
  /\ running' = TRUE
  /\ at_start' = [d \in Days |-> Len(logs[d])]
  /\ skipped' = [d \in Days |-> IF d = current_log_path THEN Len(logs[d]) ELSE 0]
  /\ UNCHANGED <<now, archive_dir, logs, open, lock, hcall, opc, opath, oread, pending, mutex, pc,
                 dedup, dedup_set, sent, handed>>

ProcessStart ==
  /\ ~running
  /\ Construct(TRUE)

\* the process ends: what it held in memory is gone, the files stay
ProcessStop ==
  /\ running
  /\ running' = FALSE
  /\ today' = 0
  /\ state' = <<>>
  /\ current_file' = 0
  /\ tail_pos' = 0
  /\ observer' = NoObserver
  /\ ost' = [i \in ObsIds |-> "free"]
  /\ opc' = IdleObservers
  /\ opath' = [i \in ObsIds |-> 0]
  /\ oread' = [i \in ObsIds |-> NoLocals]
  /\ pending' = [i \in ObsIds |-> {}]
  /\ mutex' = 0
  /\ pc' = [t \in Threads |-> "idle"]
  /\ dedup' = <<>>
  /\ dedup_set' = {}
  /\ status' = <<>>
  /\ sent' = <<>>
  /\ lock' = NoHolder
  /\ hcall' = NoCall
  /\ UNCHANGED <<now, data_dir, archive_dir, logs, open, handed, at_start, skipped>>

(***************************************************************************)
(* The clock and the log writer.                                           *)
(***************************************************************************)
\* time passes 09:00 or passes midnight
NextClock ==
  IF now.post9 THEN [day |-> now.day + 1, post9 |-> FALSE]
  ELSE [now EXCEPT !.post9 = TRUE]

\* time passes; at 09:00 the cron trigger submits reset_at_9 unless its
\* previous run is still going
Tick ==
  /\ NextClock.day <= MaxDay
  /\ now' = NextClock
  /\ pc' = IF ~now.post9 /\ running /\ pc["cron"] = "idle"
           THEN [pc EXCEPT !["cron"] = "due"] ELSE pc
  /\ UNCHANGED <<running, storeVars, logs, open, lock, hcall, tailVars, lineVars, status>>

\* midnight passes, for a process whose 09:00 job is left out (SpecTail
\* runs reset_at_9 from the UI's button, at any time)
MidnightPasses ==
  /\ now.day < MaxDay
  /\ now' = [now EXCEPT !.day = @ + 1]
  /\ UNCHANGED <<running, storeVars, logs, open, lock, hcall, tailVars, pc, lineVars, status>>

\* the dispatch system appends a complete line to today's log file; every
\* started observer gets a modified event for that file
WriterAppend(line) ==
  /\ Len(logs[now.day]) < MaxLines
  /\ logs' = [logs EXCEPT ![now.day] = Append(@, line)]
  /\ pending' = [i \in ObsIds |->
                   IF ost[i] = "started" THEN pending[i] \cup {now.day} ELSE pending[i]]
  /\ UNCHANGED <<open, lock, hcall, now, running, storeVars, current_file, tail_pos, observer, ost, opc,
                 opath, oread, mutex, pc, lineVars, status>>

\* the dispatch system writes the first characters of a line and flushes:
\* the file ends in an entry without a newline
WriterFlush(chunk) ==
  /\ Len(logs[now.day]) < MaxLines
  /\ Len(logs[now.day]) \notin open[now.day]
  /\ logs' = [logs EXCEPT ![now.day] = Append(@, chunk)]
  /\ open' = [open EXCEPT ![now.day] = @ \cup {Len(logs[now.day]) + 1}]
  /\ pending' = [i \in ObsIds |->
                   IF ost[i] = "started" THEN pending[i] \cup {now.day} ELSE pending[i]]
  /\ UNCHANGED <<lock, hcall, now, running, storeVars, current_file, tail_pos, observer,
                 ost, opc, opath, oread, mutex, pc, lineVars, status>>

(***************************************************************************)
(* Storage's mutators, called with the store lock held.                    *)
(***************************************************************************)
Upsert(phone, vehicles, cancel_hold, persist_ok) ==
  /\ running
  /\ state' = UpsertState(state, phone, vehicles, cancel_hold, now_iso)
  /\ data_dir' = Persist(data_dir, today, state', persist_ok)
  /\ UNCHANGED <<now, running, archive_dir, today, logs, open, lock, hcall, tailVars, pc, lineVars, status>>

Remove(phone, persist_ok) ==
  /\ running
  /\ state' = RemoveState(state, phone)
  /\ data_dir' = IF IndexOf(state, phone) # 0
                 THEN Persist(data_dir, today, state', persist_ok) ELSE data_dir
  /\ UNCHANGED <<now, running, archive_dir, today, logs, open, lock, hcall, tailVars, pc, lineVars, status>>

SetCancelHold(phone, hold, persist_ok) ==
  /\ running
  /\ state' = SetCancelHoldState(state, phone, hold)
  /\ data_dir' = IF IndexOf(state, phone) # 0
                 THEN Persist(data_dir, today, state', persist_ok) ELSE data_dir
  /\ UNCHANGED <<now, running, archive_dir, today, logs, open, lock, hcall, tailVars, pc, lineVars, status>>

(***************************************************************************)
(* check_rollover and reset_at_9, step by step; thread t runs them.        *)
(***************************************************************************)
\* check_rollover, line 318: a persist that fails inside rotate_to raises out
\* of the job
CR_Ensure(move_ok, persist_ok) ==
  /\ running
  /\ pc["rollover"] = "idle"
  /\ EnsureToday(move_ok, persist_ok)
  /\ pc' = IF today_str_compact # today /\ ~persist_ok THEN pc
           ELSE [pc EXCEPT !["rollover"] = "cr_path"]
  /\ UNCHANGED <<now, running, logs, open, lock, hcall, tailVars, lineVars, status>>

\* check_rollover, lines 319-322
CR_Path ==
  /\ pc["rollover"] = "cr_path"
  /\ IF current_log_path # current_file
     THEN /\ status' = AppendLeft(status, <<"Rollover", current_log_path>>)
          /\ current_file' = current_log_path
          /\ skipped' = [skipped EXCEPT ![current_log_path] =
                           Len(logs[current_log_path])]
          /\ pc' = [pc EXCEPT !["rollover"] = "stop"]
     ELSE /\ pc' = [pc EXCEPT !["rollover"] = "idle"]
          /\ UNCHANGED <<status, current_file, skipped>>
  /\ UNCHANGED <<now, running, storeVars, logs, open, lock, hcall, tail_pos, observer, ost, opc, opath,
                 oread, pending, mutex, dedup, dedup_set, sent, handed, at_start>>

\* reset_at_9, lines 311-312: by the cron job, or by the UI's reset button
R9_Reset(t, move_ok, persist_ok) ==
  /\ running
  /\ \/ t = "cron" /\ pc[t] = "due"
     \/ t = "ui" /\ pc[t] = "idle"
  /\ status' = AppendLeft(status, <<"Reset">>)
  /\ Reset0900(move_ok, persist_ok)
  /\ pc' = [pc EXCEPT ![t] = IF persist_ok THEN "r9_path" ELSE "idle"]
  /\ UNCHANGED <<now, running, logs, open, lock, hcall, tailVars, lineVars>>

\* reset_at_9, lines 313-314
R9_Path(t) ==
  /\ pc[t] = "r9_path"
  /\ current_file' = current_log_path
  /\ tail_pos' = 0
  /\ pc' = [pc EXCEPT ![t] = "stop"]
  /\ UNCHANGED <<now, running, storeVars, logs, open, lock, hcall, observer, ost, opc, opath, oread,
                 pending, mutex, lineVars, status>>

\* restart_watch, lines 338-343: stop the observer that self.observer names
\* and join it for at most two seconds. A stopped observer dispatches no
\* further event; its thread ends once the running handler returns.
RW_Stop(t) ==
  /\ pc[t] = "stop"
  /\ IF observer # NoObserver /\ ost[observer] \in {"started", "new"}
     THEN /\ ost' = [ost EXCEPT ![observer] =
                       IF opc[observer] = "idle" THEN "free" ELSE "stopped"]
          /\ pending' = [pending EXCEPT ![observer] = {}]
     ELSE UNCHANGED <<ost, pending>>
  /\ pc' = [pc EXCEPT ![t] = "start"]
  /\ UNCHANGED <<now, running, storeVars, logs, open, lock, hcall, current_file, tail_pos, observer,
                 opc, opath, oread, mutex, lineVars, status>>

\* start_watch, lines 327-335, with _prepare_tail: the offset is set to the
\* end of the current file, then a new Observer is made and started
\* (started = FALSE: schedule or start raises, caught by start_watch)
RW_Start(t, started) ==
  /\ pc[t] = "start"
  /\ tail_pos' = Len(logs[current_file])
  /\ \E i \in ObsIds :
       /\ ost[i] = "free"
       /\ \A k \in ObsIds : ost[k] = "free" => i <= k
       /\ observer' = i
       /\ ost' = [ost EXCEPT ![i] = IF started THEN "started" ELSE "new"]
  /\ status' = AppendLeft(status, IF started THEN <<"Watch", current_file>>
                                  ELSE <<"WatchError">>)
  /\ pc' = [pc EXCEPT ![t] = "idle"]
  /\ UNCHANGED <<now, running, storeVars, logs, open, lock, hcall, current_file, opc, opath, oread,
                 pending, mutex, lineVars>>

(***************************************************************************)
(* An observer's thread: on_modified and tail_new_lines.                   *)
(***************************************************************************)
\* TailHandler.on_modified, lines 277-278, and line 361 of tail_new_lines
O_Dispatch(i) ==
  /\ running
  /\ ost[i] = "started"
  /\ opc[i] = "idle"
  /\ \E d \in pending[i] :
       /\ pending' = [pending EXCEPT ![i] = @ \ {d}]
       /\ IF d = current_file
          THEN /\ opc' = [opc EXCEPT ![i] = "lock"]
               /\ opath' = [opath EXCEPT ![i] = current_file]
          ELSE UNCHANGED <<opc, opath>>
  /\ UNCHANGED <<now, running, storeVars, logs, open, lock, hcall, current_file, tail_pos, observer, ost,
                 oread, mutex, pc, lineVars, status>>

\* tail_new_lines, lines 362-366: take the mutex, seek to _tail_pos, read to
\* the end of the file; tell() after a seek past the end gives the seek offset
O_Read(i) ==
  /\ opc[i] = "lock"
  /\ mutex = 0
  /\ mutex' = i
  /\ LET len == Len(logs[opath[i]])
     IN oread' = [oread EXCEPT ![i] =
                    [pos |-> IF tail_pos > len THEN tail_pos ELSE len,
                     next |-> tail_pos + 1, last |-> len]]
  /\ opc' = [opc EXCEPT ![i] = "store"]
  /\ UNCHANGED <<now, running, storeVars, logs, open, lock, hcall, current_file, tail_pos, observer, ost,
                 opath, pending, pc, lineVars, status>>

\* tail_new_lines, line 367
O_Store(i) ==
  /\ opc[i] = "store"
  /\ tail_pos' = oread[i].pos
  /\ oread' = [oread EXCEPT ![i].pos = 0]
  /\ opc' = [opc EXCEPT ![i] = "handle"]
  /\ UNCHANGED <<now, running, storeVars, logs, open, lock, hcall, current_file, observer, ost, opath,
                 pending, mutex, pc, lineVars, status>>

\* the entries from..to of a file, put together
RECURSIVE JoinEntries(_, _, _)
JoinEntries(entries, from, to) ==
  IF from > to THEN <<>>
  ELSE entries[from] \o JoinEntries(entries, from + 1, to)

\* readlines() on the entries from..last of a day's file: the line that
\* starts at entry `from` ends with the first entry that ends in a newline,
\* or with the last entry read
LineEnd(day, from, last) ==
  IF \E e \in from..last : e \notin open[day]
  THEN CHOOSE e \in from..last :
         e \notin open[day] /\ \A k \in from..(e - 1) : k \in open[day]
  ELSE last

\* tail_new_lines, lines 368-371: the next line that was read
O_HandleNext(i, ok) ==
  /\ opc[i] = "handle"
  /\ oread[i].next <= oread[i].last
  /\ LET stop == LineEnd(opath[i], oread[i].next, oread[i].last)
         line == JoinEntries(logs[opath[i]], oread[i].next, stop)
         res == HandleLine(dedup, dedup_set, status, state, line, ok)
     IN IF IsBlank(line)
        THEN UNCHANGED <<dedup, dedup_set, status, sent, handed>>
        ELSE /\ dedup' = res.dedup
             /\ dedup_set' = res.dedup_set
             /\ status' = res.status
             /\ sent' = res.sent
             /\ handed' = [handed EXCEPT ![opath[i]][oread[i].next] =
                             IF @ < 2 THEN @ + 1 ELSE @]
  /\ oread' = [oread EXCEPT ![i].next =
                  LineEnd(opath[i], oread[i].next, oread[i].last) + 1]
  /\ UNCHANGED <<now, running, storeVars, logs, open, lock, hcall, current_file, tail_pos, observer, ost,
                 opc, opath, pending, mutex, pc, at_start, skipped>>

\* tail_new_lines returns and releases the mutex; the thread of a stopped
\* observer ends
O_Done(i) ==
  /\ opc[i] = "handle"
  /\ oread[i].next > oread[i].last
  /\ mutex' = 0
  /\ opc' = [opc EXCEPT ![i] = "idle"]
  /\ oread' = [oread EXCEPT ![i] = NoLocals]
  /\ opath' = [opath EXCEPT ![i] = 0]
  /\ ost' = [ost EXCEPT ![i] = IF @ = "stopped" THEN "free" ELSE @]
  /\ UNCHANGED <<now, running, storeVars, logs, open, lock, hcall, current_file, tail_pos, observer,
                 pending, pc, lineVars, status>>

(***************************************************************************)
(* Storage's methods and _handle_line step by step, with Storage.lock:     *)
(* thread t runs a method; `with self.lock:` is entered when the lock is   *)
(* free and left after the method's last step.                             *)
(***************************************************************************)
\* `with self.lock:` entered without waiting for the lock
StoreLockFree_NotChecked == TRUE

\* `with self.lock:` can be entered
StoreLockFree == lock = NoHolder

\* upsert, lines 181-187: the lock is taken and the dict is changed
L_Upsert(t, phone, vehicles, cancel_hold) ==
  /\ running
  /\ pc[t] = "idle"
  /\ StoreLockFree
  /\ lock' = t
  /\ state' = UpsertState(state, phone, vehicles, cancel_hold, now_iso)
  /\ pc' = [pc EXCEPT ![t] = "persist"]
  /\ UNCHANGED <<now, running, data_dir, archive_dir, today, logs, open, hcall, tailVars,
                 lineVars, status>>

\* remove, lines 191-193; for a phone that is not in the dict the lock is
\* taken and released with nothing changed
L_Remove(t, phone) ==
  /\ running
  /\ pc[t] = "idle"
  /\ StoreLockFree
  /\ IF IndexOf(state, phone) = 0
     THEN UNCHANGED <<lock, state, pc>>
     ELSE /\ lock' = t
          /\ state' = RemoveState(state, phone)
          /\ pc' = [pc EXCEPT ![t] = "persist"]
  /\ UNCHANGED <<now, running, data_dir, archive_dir, today, logs, open, hcall, tailVars,
                 lineVars, status>>

\* set_cancel_hold, lines 197-199
L_SetCancelHold(t, phone, hold) ==
  /\ running
  /\ pc[t] = "idle"
  /\ StoreLockFree
  /\ IF IndexOf(state, phone) = 0
     THEN UNCHANGED <<lock, state, pc>>
     ELSE /\ lock' = t
          /\ state' = SetCancelHoldState(state, phone, hold)
          /\ pc' = [pc EXCEPT ![t] = "persist"]
  /\ UNCHANGED <<now, running, data_dir, archive_dir, today, logs, open, hcall, tailVars,
                 lineVars, status>>

\* rotate_to, lines 165-170: the lock is taken and the day's file is moved
\* to the archive
L_RotateMove(t, move_ok) ==
  /\ running
  /\ pc[t] = "idle"
  /\ StoreLockFree
  /\ lock' = t
  /\ LET moved == data_dir[today].exists /\ move_ok
     IN /\ archive_dir' = IF moved THEN [archive_dir EXCEPT ![today] = data_dir[today]]
                          ELSE archive_dir
        /\ data_dir' = IF moved THEN [data_dir EXCEPT ![today] = NoFile] ELSE data_dir
  /\ pc' = [pc EXCEPT ![t] = "switch"]
  /\ UNCHANGED <<now, running, today, state, logs, open, hcall, tailVars, lineVars, status>>

\* rotate_to, lines 171-173, called by reset_0900: the day key is set and
\* the dict is emptied
L_RotateSwitch(t) ==
  /\ pc[t] = "switch"
  /\ lock = t
  /\ today' = today_str_compact
  /\ state' = <<>>
  /\ pc' = [pc EXCEPT ![t] = "persist"]
  /\ UNCHANGED <<now, running, data_dir, archive_dir, logs, open, lock, hcall, tailVars,
                 lineVars, status>>

\* _persist as the last step of a method, and the end of `with self.lock:`
L_Persist(t) ==
  /\ pc[t] = "persist"
  /\ lock = t
  /\ data_dir' = Persist(data_dir, today, state, TRUE)
  /\ lock' = NoHolder
  /\ pc' = [pc EXCEPT ![t] = "idle"]
  /\ UNCHANGED <<now, running, archive_dir, today, state, logs, open, hcall, tailVars,
                 lineVars, status>>

\* _handle_line up to the call of subscribers_for_vehicle: the duplicate
\* check, the record of the hash and the parse of the vehicle
H_Begin(line) ==
  /\ running
  /\ hcall.at = "idle"
  /\ LET h == line_hash(line)
         rec == DedupRecord(dedup, dedup_set, h)
         vehicle == last_bracket_value(line)
     IN IF h \in dedup_set
        THEN UNCHANGED <<dedup, dedup_set, hcall>>
        ELSE /\ dedup' = rec.dedup
             /\ dedup_set' = rec.dedup_set
             /\ hcall' = IF vehicle = None \/ vehicle = <<>> \/ vehicle \notin VEHICLE_SET
                         THEN NoCall
                         ELSE [NoCall EXCEPT !.at = "targets", !.vehicle = vehicle]
  /\ sent' = <<>>
  /\ UNCHANGED <<now, running, storeVars, logs, open, lock, tailVars, pc, status, handed,
                 at_start, skipped>>

\* subscribers_for_vehicle called by _handle_line: the lock is taken, the
\* dict is read and the lock is released; with no target the call ends
H_Targets ==
  /\ hcall.at = "targets"
  /\ StoreLockFree
  /\ LET targets == SubscribersOf(state, hcall.vehicle)
     IN IF targets = <<>>
        THEN /\ status' = AppendLeft(status, <<"Skip", hcall.vehicle>>)
             /\ hcall' = NoCall
        ELSE /\ hcall' = [hcall EXCEPT !.at = "send", !.targets = targets]
             /\ UNCHANGED status
  /\ UNCHANGED <<now, running, storeVars, logs, open, lock, tailVars, pc, dedup, dedup_set,
                 sent, handed, at_start, skipped>>

\* one pass of the send loop; after the last target the status entry is
\* written and the call ends
H_Send(ok) ==
  /\ hcall.at = "send"
  /\ LET phone == hcall.targets[Len(hcall.calls) + 1]
         calls == Append(hcall.calls, <<phone, MessageText(hcall.vehicle), ok[phone]>>)
     IN IF Len(calls) = Len(hcall.targets)
        THEN /\ status' = AppendLeft(status, <<"Send", hcall.vehicle,
                                              CountSent(calls, TRUE), CountSent(calls, FALSE)>>)
             /\ sent' = calls
             /\ hcall' = NoCall
        ELSE /\ hcall' = [hcall EXCEPT !.calls = calls]
             /\ UNCHANGED <<status, sent>>
  /\ UNCHANGED <<now, running, storeVars, logs, open, lock, tailVars, pc, dedup, dedup_set,
                 handed, at_start, skipped>>

(***************************************************************************)
(* Storage's rotation methods called on their own (the store lock held).   *)
(***************************************************************************)
\* Storage.ensure_today()
EnsureTodayCall(move_ok, persist_ok) ==
  /\ running
  /\ EnsureToday(move_ok, persist_ok)
  /\ UNCHANGED <<now, running, logs, open, lock, hcall, tailVars, pc, lineVars, status>>

\* Storage.reset_0900()
Reset0900Call(move_ok, persist_ok) ==
  /\ running
  /\ Reset0900(move_ok, persist_ok)
  /\ UNCHANGED <<now, running, logs, open, lock, hcall, tailVars, pc, lineVars, status>>

(***************************************************************************)
(* The state after construction at 00:00 of day 0, with the given log      *)
(* files and no subscriber file yet (InitWith); and the state of a process *)
(* constructed on day key with no subscriber yet, at time clock, no      *)
(* scheduled job having run yet (InitAt).                                  *)
(***************************************************************************)
Outcomes == BOOLEAN

EmptyDir == [d \in Days |-> NoFile]

InitAt(clock, key, files) ==
  /\ now = clock
  /\ running = TRUE
  /\ data_dir = [EmptyDir EXCEPT ![key] = JsonFile(<<>>)]
  /\ archive_dir = EmptyDir
  /\ today = key
  /\ state = <<>>
  /\ logs = files
  /\ current_file = clock.day
  /\ tail_pos = Len(files[clock.day])
  /\ observer = 1
  /\ ost = [i \in ObsIds |-> IF i = 1 THEN "started" ELSE "free"]
  /\ opc = IdleObservers
  /\ opath = [i \in ObsIds |-> 0]
  /\ oread = [i \in ObsIds |-> NoLocals]
  /\ pending = [i \in ObsIds |-> {}]
  /\ mutex = 0
  /\ pc = [t \in Threads |-> "idle"]
  /\ dedup = <<>>
  /\ dedup_set = {}
  /\ status = <<<<"Watch", clock.day>>>>
  /\ sent = <<>>
  /\ handed = [d \in Days |-> [n \in 1..MaxLines |-> 0]]
  /\ at_start = [d \in Days |-> Len(files[d])]
  /\ skipped = [d \in Days |-> IF d = key THEN Len(files[d]) ELSE 0]
  /\ open = [d \in Days |-> {}]
  /\ lock = NoHolder
  /\ hcall = NoCall

InitWith(files) == InitAt([day |-> 0, post9 |-> FALSE], 0, files)

NoLogs == [d \in Days |-> <<>>]

(***************************************************************************)
(* Specification SpecStore: one Storage object under any sequence of its   *)
(* method calls, at any time of any day, its day key being that day or an  *)
(* earlier one.  (Time passing is in SpecSched.)                           *)
(***************************************************************************)
VehicleLists == {<<Ladder>>, <<Aerial, Ladder>>}

ClockValues == [day : Days, post9 : BOOLEAN]

InitStore ==
  \E clock \in ClockValues, key \in Days :
    /\ key <= clock.day
    /\ InitAt(clock, key, NoLogs)

NextStore ==
  \/ \E phone \in Phones, vehicles \in VehicleLists, hold \in BOOLEAN :
       Upsert(phone, vehicles, hold, TRUE)
  \/ \E phone \in Phones : Remove(phone, TRUE)
  \/ \E phone \in Phones, hold \in BOOLEAN : SetCancelHold(phone, hold, TRUE)
  \/ \E move_ok \in Outcomes : EnsureTodayCall(move_ok, TRUE)
  \/ \E move_ok \in Outcomes : Reset0900Call(move_ok, TRUE)

SpecStore == InitStore /\ [][NextStore]_vars

(***************************************************************************)
(* Specification SpecSched: the process with its two scheduled jobs, one   *)
(* subscriber, and exit and restart of the process.  The log files stay    *)
(* empty.                                                                  *)
(***************************************************************************)
InitSched == InitWith(NoLogs)

NextSched ==
  \/ Tick
  \/ ProcessStop
  \/ ProcessStart
  \/ Upsert(PhoneA, <<Ladder>>, FALSE, TRUE)
  \/ \E move_ok \in Outcomes : CR_Ensure(move_ok, TRUE)
  \/ CR_Path
  \/ \E move_ok \in Outcomes : R9_Reset("cron", move_ok, TRUE)
  \/ R9_Path("cron")
  \/ \E t \in {"rollover", "cron"} : RW_Stop(t)
  \/ \E t \in {"rollover", "cron"} : RW_Start(t, TRUE)

SpecSched == InitSched /\ [][NextSched]_vars

(***************************************************************************)
(* Specification SpecNotify: _handle_line called with any line of a sample *)
(* set, any outcome of each send, while subscribers come and go.           *)
(***************************************************************************)
SampleLines ==
  { <<"x", " ", "[", "x", "]", " ", "[", "sa", "da", "ri", "]">>,
    <<"[", "sa", "da", "ri", "]", " ", "[", "gul", "jeol", "]">>,
    <<"[", " ", "sa", "da", " ", "ri", " ", "]">>,
    <<"[", "geum", "am", "gu", "geup", "0", "2", "]">>,
    <<"x", " ", "x">>,
    <<"[", "x", "]">> }

SendOutcomes == [Phones -> BOOLEAN]

\* _handle_line(line), the store lock taken inside at line 390
HandleLineCall(line, ok) ==
  /\ running
  /\ LET res == HandleLine(dedup, dedup_set, status, state, line, ok)
     IN /\ dedup' = res.dedup
        /\ dedup_set' = res.dedup_set
        /\ status' = res.status
        /\ sent' = res.sent
  /\ UNCHANGED <<now, running, storeVars, logs, open, lock, hcall, tailVars, pc, handed, at_start, skipped>>

InitNotify == InitWith(NoLogs)

NextNotify ==
  \/ \E line \in SampleLines, ok \in SendOutcomes : HandleLineCall(line, ok)
  \/ \E phone \in Phones : Upsert(phone, <<Ladder>>, FALSE, TRUE)
  \/ \E hold \in BOOLEAN : SetCancelHold(PhoneA, hold, TRUE)
  \/ Remove(PhoneB, TRUE)

SpecNotify == InitNotify /\ [][NextNotify]_vars

(***************************************************************************)
(* Specification SpecTail: the log writer, the observers' threads, the two *)
(* rollover check and reset_at_9, interleaved step by step.  reset_at_9 is  *)
(* run from the UI's button, at any time, which covers the 09:00 job.      *)
(* The process is constructed at 00:00 of day 0 with day 0's log file      *)
(* empty or holding one line; nobody is subscribed.                        *)
(***************************************************************************)
LadderLine == <<"x", " ", "[", "sa", "da", "ri", "]">>
WriterLines == {LadderLine}

InitTail ==
  \E old \in {<<>>, <<LadderLine>>} : InitWith([NoLogs EXCEPT ![0] = old])

NoSendFails == [p \in Phones |-> TRUE]

NextTail ==
  \/ MidnightPasses
  \/ \E line \in WriterLines : WriterAppend(line)
  \/ CR_Ensure(TRUE, TRUE)
  \/ CR_Path
  \/ R9_Reset("ui", TRUE, TRUE)
  \/ R9_Path("ui")
  \/ \E t \in {"rollover", "ui"} : RW_Stop(t)
  \/ \E t \in {"rollover", "ui"} : RW_Start(t, TRUE)
  \/ \E i \in ObsIds : O_Dispatch(i)
  \/ \E i \in ObsIds : O_Read(i)
  \/ \E i \in ObsIds : O_Store(i)
  \/ \E i \in ObsIds : O_HandleNext(i, NoSendFails)
  \/ \E i \in ObsIds : O_Done(i)

SpecTail == InitTail /\ [][NextTail]_vars

(***************************************************************************)
(* Specification SpecSubscribe: the UI's subscribe button pressed with any *)
(* of a few entered phone strings, and _handle_line called with a line     *)
(* that names the ladder truck.                                            *)
(***************************************************************************)
\* PhoneA as a user may type it, a second number, and a string too short
PhoneAHyphen == <<"0", "1", "0", "-", "1", "1", "1", "1", "-", "2", "2", "2", "2">>
ShortPhone == <<"0", "1", "0">>
EnteredPhones == {PhoneA, PhoneAHyphen, PhoneB, ShortPhone}

\* the subscribe button, lines 452-457: the entered string is validated and,
\* when valid, passed to upsert as entered
SubscribeClick(phone, vehicle) ==
  IF valid_phone(phone)
  THEN Upsert(phone, <<vehicle>>, FALSE, TRUE)
  ELSE running /\ UNCHANGED vars

\* SmsProvider.send on every phone: every send succeeds
AllSendsOk == [p \in EnteredPhones |-> TRUE]

InitSubscribe == InitWith(NoLogs)

NextSubscribe ==
  \/ \E phone \in EnteredPhones, vehicle \in {Ladder, Aerial} :
       SubscribeClick(phone, vehicle)
  \/ HandleLineCall(LadderLine, AllSendsOk)

SpecSubscribe == InitSubscribe /\ [][NextSubscribe]_vars

(***************************************************************************)
(* Specification SpecParse: one line, any concatenation of at most         *)
(* MaxPieces pieces, is appended to the empty log file of a running        *)
(* process and read by the observer's thread; one phone may be subscribed  *)
(* to the rescue truck and the second ambulance.                           *)
(***************************************************************************)
MaxPieces == 6

Rescue == <<"gu", "jo">>

AmbulanceZeroTwo == <<"geum", "am", "gu", "geup", "0", "2">>

\* what a line is put together from: the brackets, a space, a vehicle name,
\* and a spelling that ALIASES maps to the second ambulance
Pieces == { <<"[">>, <<"]">>, <<" ">>, Rescue, AmbulanceZeroTwo }

RECURSIVE LinesOf(_)
LinesOf(n) ==
  IF n = 0 THEN {<<>>}
  ELSE LET shorter == LinesOf(n - 1)
       IN shorter \cup {l \o p : l \in shorter, p \in Pieces}

ParseLines == LinesOf(MaxPieces)

InitParse == InitWith(NoLogs)

NextParse ==
  \/ logs[now.day] = <<>> /\ \E line \in ParseLines : WriterAppend(line)
  \/ Upsert(PhoneA, <<Rescue, AmbulanceTwo>>, FALSE, TRUE)
  \/ \E i \in ObsIds : O_Dispatch(i)
  \/ \E i \in ObsIds : O_Read(i)
  \/ \E i \in ObsIds : O_Store(i)
  \/ \E i \in ObsIds : O_HandleNext(i, NoSendFails)
  \/ \E i \in ObsIds : O_Done(i)

SpecParse == InitParse /\ [][NextParse]_vars

(***************************************************************************)
(* Specification SpecRead: lines naming the ladder truck are appended to   *)
(* today's log file and read by the observer's thread while phones         *)
(* subscribe to the ladder truck; any send may fail.                       *)
(***************************************************************************)
SpacedLadderLine == <<"[", " ", "sa", "da", " ", "ri", " ", "]">>
ReadLines == {LadderLine, SpacedLadderLine}

InitRead == InitWith(NoLogs)

NextRead ==
  \/ \E phone \in Phones : Upsert(phone, <<Ladder>>, FALSE, TRUE)
  \/ \E line \in ReadLines : WriterAppend(line)
  \/ \E i \in ObsIds : O_Dispatch(i)
  \/ \E i \in ObsIds : O_Read(i)
  \/ \E i \in ObsIds : O_Store(i)
  \/ \E i \in ObsIds, ok \in SendOutcomes : O_HandleNext(i, ok)
  \/ \E i \in ObsIds : O_Done(i)

SpecRead == InitRead /\ [][NextRead]_vars

(***************************************************************************)
(* Specification SpecFault: the two scheduled jobs while the clock runs,   *)
(* with the faults the jobs can meet: the archive move or the write of the *)
(* subscriber file failing inside rotate_to, and the new Observer failing  *)
(* to start.  SpecFaultFair adds what the scheduler guarantees: the        *)
(* interval job check_rollover keeps running, each started job runs to its *)
(* end, and an Observer that is started again and again does start.  The  *)
(* clock is not required to advance.                                       *)
(***************************************************************************)
InitFault == InitWith(NoLogs)

NextFault ==
  \/ Tick
  \/ Upsert(PhoneA, <<Ladder>>, FALSE, TRUE)
  \/ \E move_ok \in Outcomes, persist_ok \in Outcomes : CR_Ensure(move_ok, persist_ok)
  \/ CR_Path
  \/ \E move_ok \in Outcomes, persist_ok \in Outcomes : R9_Reset("cron", move_ok, persist_ok)
  \/ R9_Path("cron")
  \/ \E t \in {"rollover", "cron"} : RW_Stop(t)
  \/ \E t \in {"rollover", "cron"}, started \in Outcomes : RW_Start(t, started)

SpecFault == InitFault /\ [][NextFault]_vars

SpecFaultFair ==
  /\ SpecFault
  /\ WF_vars(\E move_ok \in Outcomes, persist_ok \in Outcomes : CR_Ensure(move_ok, persist_ok))
  /\ WF_vars(CR_Path)
  /\ WF_vars(R9_Path("cron"))
  /\ \A t \in {"rollover", "cron"} : WF_vars(RW_Stop(t)) /\ SF_vars(RW_Start(t, TRUE))

(***************************************************************************)
(* Specification SpecPartial: the writer writes one line, whose first      *)
(* bracket group names the ladder truck and whose last names the aerial    *)
(* truck, either at once or in two writes with a flush in between; the     *)
(* observer's thread reads; one phone may be subscribed to both vehicles.  *)
(***************************************************************************)
TwoGroupLine ==
  <<"x", " ", "[", "sa", "da", "ri", "]", " ", "[", "gul", "jeol", "]">>

\* the places at which the writer may flush inside the line
Cuts == 1..(Len(TwoGroupLine) - 1)

InitPartial == InitWith(NoLogs)

NextPartial ==
  \/ Upsert(PhoneA, <<Aerial, Ladder>>, FALSE, TRUE)
  \/ Len(logs[now.day]) \notin open[now.day] /\ WriterAppend(TwoGroupLine)
  \/ \E k \in Cuts : WriterFlush(SubSeq(TwoGroupLine, 1, k))
  \/ \E k \in Cuts :
       /\ Len(logs[now.day]) \in open[now.day]
       /\ logs[now.day][Len(logs[now.day])] = SubSeq(TwoGroupLine, 1, k)
       /\ WriterAppend(SubSeq(TwoGroupLine, k + 1, Len(TwoGroupLine)))
  \/ \E i \in ObsIds : O_Dispatch(i)
  \/ \E i \in ObsIds : O_Read(i)
  \/ \E i \in ObsIds : O_Store(i)
  \/ \E i \in ObsIds : O_HandleNext(i, NoSendFails)
  \/ \E i \in ObsIds : O_Done(i)

SpecPartial == InitPartial /\ [][NextPartial]_vars

(***************************************************************************)
(* Specification SpecLock: the UI's thread changes the subscribers and the *)
(* 09:00 job's thread rotates the store, each method step by step, while   *)
(* the observer's thread runs _handle_line step by step on lines that name *)
(* the ladder truck.  The clock stands still.                              *)
(***************************************************************************)
InitLock == InitWith(NoLogs)

NextLock ==
  \/ \E phone \in Phones : L_Upsert("ui", phone, <<Ladder>>, FALSE)
  \/ \E phone \in Phones : L_Remove("ui", phone)
  \/ \E hold \in BOOLEAN : L_SetCancelHold("ui", PhoneA, hold)
  \/ \E move_ok \in BOOLEAN : L_RotateMove("cron", move_ok)
  \/ L_RotateSwitch("cron")
  \/ \E t \in {"ui", "cron"} : L_Persist(t)
  \/ \E line \in ReadLines : H_Begin(line)
  \/ H_Targets
  \/ \E ok \in SendOutcomes : H_Send(ok)

SpecLock == InitLock /\ [][NextLock]_vars

(***************************************************************************)
(* Claims.                                                                 *)
(***************************************************************************)

\* C2 (as claimed): a _handle_line call with a line whose hash is among the
\* DedupMaxLen most recently recorded hashes (the deque holds exactly those)
\* makes no sms.send call and adds no status entry.
C2_IdempotentWithinWindow ==
  [][\A line \in SampleLines, ok \in SendOutcomes :
       (HandleLineCall(line, ok) /\ line_hash(line) \in Range(dedup))
         => (sent' = <<>> /\ status' = status)]_vars

\* C3 (as claimed): the dedup deque and the membership set hold the same
\* hashes in every state.
C3_DequeAndSetAgree == Range(dedup) = dedup_set

\* C4: for every vehicle, subscribers_for_vehicle returns each phone at most
\* once and exactly the phones of the records that list the vehicle and are
\* not on hold.
C4_SubscribersExact ==
  \A v \in VEHICLE_SET :
    LET out == subscribers_for_vehicle(v)
    IN /\ Range(out) = {state[i].phone : i \in {k \in 1..Len(state) :
                          /\ v \in Range(state[k].vehicles)
                          /\ ~state[k].cancel_hold_until_09}}
       /\ \A i, j \in 1..Len(out) : out[i] = out[j] => i = j

\* C4 witness: two records list the ladder truck, one of them on hold, and
\* only the other is returned; a phone that lists only the ladder truck is not
\* returned for the aerial truck.
C4_Witness ==
  /\ Len(state) = 2
  /\ \E i, j \in 1..2 :
       /\ i # j
       /\ state[i].cancel_hold_until_09
       /\ state[i].vehicles = <<Aerial, Ladder>>
       /\ ~state[j].cancel_hold_until_09
       /\ state[j].vehicles = <<Ladder>>
       /\ subscribers_for_vehicle(Ladder) = <<state[j].phone>>
       /\ subscribers_for_vehicle(Aerial) = <<>>

\* a step in which rotate_to ran to its end, its archive move not failing
RotateReturns ==
  \/ EnsureTodayCall(TRUE, TRUE) /\ today_str_compact # today
  \/ Reset0900Call(TRUE, TRUE)

\* C8: after rotate_to(d) returns, the move not failing: the dict is empty,
\* the day key is d, the file of d holds the empty mapping, the file that was
\* persisted before the call is in the archive under its own name, and that
\* name is gone from the data directory (or, when d is the same day, names
\* the new empty file).
C8_RotationLaw ==
  [][RotateReturns =>
       /\ ListRecords(state') = <<>>
       /\ today' = today_str_compact
       /\ data_dir'[today'] = JsonFile(<<>>)
       /\ data_dir[today].exists => archive_dir'[today] = data_dir[today]
       /\ today' # today => ~data_dir'[today].exists]_vars

\* C8 witness: a rotation to the next day has archived day 0's file with a
\* record in it, and day 0's file is gone from the data directory.
C8_Witness ==
  /\ today = 1
  /\ state = <<>>
  /\ data_dir[1] = JsonFile(<<>>)
  /\ ~data_dir[0].exists
  /\ archive_dir[0].exists
  /\ archive_dir[0].recs # <<>>

\* a record created before 09:00 of the current day
CreatedBeforeNine(rec) ==
  \/ rec.created_at.day < now.day
  \/ rec.created_at.day = now.day /\ ~rec.created_at.post9

\* C6 (as claimed): when check_rollover returns after 09:00 and no reset_at_9
\* is due or running (none fired at 09:00, the process being down then, or it
\* has finished), the store holds no record created before 09:00 of the day.
C6_MissedResetMadeUp ==
  [][(/\ pc["rollover"] # "idle"
      /\ pc'["rollover"] = "idle"
      /\ running'
      /\ now.post9
      /\ pc["cron"] = "idle")
       => \A i \in 1..Len(state') : ~CreatedBeforeNine(state'[i])]_vars


\* nothing is in flight: every job and handler has returned, no event waits,
\* and the rollover check has caught up with the date
Quiet ==
  /\ running
  /\ \A t \in Threads : pc[t] = "idle"
  /\ \A i \in ObsIds : opc[i] = "idle" /\ pending[i] = {}
  /\ current_file = current_log_path

\* C1 (as claimed): no line is handed to _handle_line twice, and once nothing
\* is in flight every non-blank line appended since the process was
\* constructed has been handed to it once.
C1_EachLineExactlyOnce ==
  /\ \A d \in Days, n \in 1..MaxLines : handed[d][n] <= 1
  /\ Quiet =>
       \A d \in Days : \A n \in (at_start[d] + 1)..Len(logs[d]) :
         ~IsBlank(logs[d][n]) => handed[d][n] = 1

\* C5 (as claimed): in the state in which reset_at_9 returns, _tail_pos is 0.
C5_OffsetZeroAfterReset ==
  [][\A t \in {"cron", "ui"} :
       (pc[t] = "start" /\ pc'[t] = "idle" /\ running') => tail_pos' = 0]_vars

\* C7 (as claimed): while a thread is inside tail_new_lines between reading
\* current_file and writing _tail_pos, no step of check_rollover or
\* reset_at_9 changes current_file or _tail_pos; and the offset a read stores
\* was measured on the file that is the current file.
C7_TailExcludesSwitch ==
  [][/\ (\E i \in ObsIds : opc[i] \in {"lock", "store"}) /\ pc' # pc
         => (current_file' = current_file /\ tail_pos' = tail_pos)
     /\ \A i \in ObsIds :
          (opc[i] = "store" /\ opc'[i] = "handle") => opath[i] = current_file]_vars

\* C9 (as claimed): no line that a log file held when the constructor or
\* check_rollover made it the tailed file is ever handed to _handle_line.
C9_SkippedLinesNeverHanded ==
  \A d \in Days : \A n \in 1..skipped[d] : handed[d][n] = 0

\* C10 (as claimed): at most one observer is started and not stopped.
C10_OneWatcher == Cardinality({i \in ObsIds : ost[i] = "started"}) <= 1

C16_CapacityLaw ==
  [][(/\ Len(dedup) = DedupMaxLen
      /\ dedup' # dedup
      /\ dedup'[Len(dedup')] \notin Range(dedup))
     => /\ dedup[1] \notin dedup_set'
        /\ dedup[1] \notin Range(dedup')
        /\ \A first \in SampleLines :
             line_hash(first) = dedup[1] =>
               HandleLine(dedup', dedup_set', status', state', first, NoSendFails).dedup
                 = DequeAppend(dedup', dedup[1])]_vars

\* C16 witness: a line naming the ladder truck was sent, DedupMaxLen other
\* lines were recorded after it, and no ladder line's hash is in the deque or
\* the set any more.
C16_Witness ==
  /\ Len(dedup) = DedupMaxLen
  /\ Len(status) = StatusMaxLen
  /\ status[StatusMaxLen][1] = "Send"
  /\ status[1][1] = "Skip"
  /\ \A line \in SampleLines :
       last_bracket_value(line) = Ladder =>
         /\ line_hash(line) \notin Range(dedup)
         /\ line_hash(line) \notin dedup_set

\* C19 (as claimed): a file that is in the archive directory stays there with
\* the content it was archived with, whatever rotation follows.
C19_ArchiveNeverOverwritten ==
  [][\A d \in Days :
       archive_dir[d].exists => archive_dir'[d] = archive_dir[d]]_vars

\* C18 (as claimed): no two records of the store denote the same phone
\* number (the same digits once every non-digit is removed), and no
\* _handle_line call sends to the same number twice.
C18_OneRecordPerNumber ==
  /\ \A i, j \in 1..Len(state) :
       DigitsOnly(state[i].phone) = DigitsOnly(state[j].phone) => i = j
  /\ \A i, j \in 1..Len(sent) :
       DigitsOnly(sent[i][1]) = DigitsOnly(sent[j][1]) => i = j

\* the bracket groups of a line: an opening bracket, one or more characters
\* that are not brackets, a closing bracket
BracketGroups(line) ==
  {g \in {i \in 1..Len(line) : line[i] = "["} \X {j \in 1..Len(line) : line[j] = "]"} :
     /\ g[2] > g[1] + 1
     /\ \A k \in (g[1] + 1)..(g[2] - 1) : line[k] \notin Brackets}

NotSpace(c) == c # " "

\* what C15 says last_bracket_value returns
LastGroupResolved(line) ==
  IF BracketGroups(line) = {} THEN None
  ELSE LET g == CHOOSE g \in BracketGroups(line) :
                  \A o \in BracketGroups(line) : o[2] <= g[2]
       IN ALIASES(SelectSeq(SubSeq(line, g[1] + 1, g[2] - 1), NotSpace))

\* C15: for every line in the log, last_bracket_value is None when the line
\* has no bracket group and otherwise the content of the last group without
\* its spaces, mapped through ALIASES; and once the line has been handled,
\* the newest status entry is its [Send] or [Skip] entry when that value is
\* in VEHICLE_SET (sends only with [Send]), and nothing was sent and no
\* status entry was added when it is not.
C15_LastBracketOnly ==
  \A n \in 1..Len(logs[0]) :
    LET line == logs[0][n]
        vehicle == last_bracket_value(line)
    IN /\ vehicle = LastGroupResolved(line)
       /\ handed[0][n] = 1 =>
            IF vehicle \in VEHICLE_SET
            THEN /\ status[1][1] \in {"Send", "Skip"}
                 /\ status[1][2] = vehicle
                 /\ sent # <<>> => status[1][1] = "Send"
            ELSE /\ status = <<<<"Watch", 0>>>>
                 /\ sent = <<>>

\* C15 witness: a line whose first group names the rescue truck and whose
\* last group is a spelling of the second ambulance was handled, and the
\* notification for the second ambulance was sent
C15_Witness ==
  /\ logs[0] = << <<"[">> \o Rescue \o <<"]", "[">> \o AmbulanceZeroTwo \o <<"]">> >>
  /\ handed[0][1] = 1
  /\ Len(sent) = 1
  /\ sent[1][2] = MessageText(AmbulanceTwo)

\* C12: when tail_new_lines hands _handle_line a line that is not a
\* duplicate, names an allow-listed vehicle and has targets, sms.send is
\* called once for each target, in order, whatever each call returns; the
\* [Send] status entry counts the calls that returned true and those that
\* returned false, the two counts adding up to the number of targets; and the
\* read goes on with its next line.
C12_OneSendPerTarget ==
  [][handed' # handed =>
       \A i \in ObsIds, ok \in SendOutcomes :
         LET line == logs[opath[i]][oread[i].next]
             vehicle == last_bracket_value(line)
             targets == subscribers_for_vehicle(vehicle)
             succeeded == {k \in 1..Len(targets) : ok[targets[k]]}
         IN (/\ O_HandleNext(i, ok)
             /\ line_hash(line) \notin dedup_set
             /\ vehicle \in VEHICLE_SET
             /\ targets # <<>>)
            => /\ Len(sent') = Len(targets)
               /\ \A k \in 1..Len(targets) :
                    /\ sent'[k][1] = targets[k]
                    /\ sent'[k][3] = ok[targets[k]]
               /\ \A k, l \in 1..Len(sent') : sent'[k][1] = sent'[l][1] => k = l
               /\ status'[1] = <<"Send", vehicle, Cardinality(succeeded),
                                 Len(targets) - Cardinality(succeeded)>>
               /\ opc'[i] = "handle"
               /\ oread'[i].next = oread[i].next + 1
               /\ oread'[i].last = oread[i].last]_vars

\* C12 witness: the first of two lines of one read was sent to two phones,
\* the first send failing and the second succeeding, and the read still has
\* its second line to handle.
C12_Witness ==
  /\ Len(sent) = 2
  /\ ~sent[1][3]
  /\ sent[2][3]
  /\ status[1] = <<"Send", Ladder, 1, 1>>
  /\ handed[0] = <<1, 0>>
  /\ \E i \in ObsIds :
       opc[i] = "handle" /\ oread[i].next = 2 /\ oread[i].last = 2

\* C13 (as claimed): when the write of the subscriber file fails inside
\* rotate_to during reset_at_9 or check_rollover, the callback records a
\* status entry for the error and goes on to its next step (recompute the
\* path, then restart the watch).
C13_CallbackCatches ==
  [][/\ (\E move_ok \in Outcomes : R9_Reset("cron", move_ok, FALSE))
          => (status'[1] # <<"Reset">> /\ pc'["cron"] = "r9_path")
     /\ (today_str_compact # today /\ \E move_ok \in Outcomes : CR_Ensure(move_ok, FALSE))
          => (status' # status /\ pc'["rollover"] = "cr_path")]_vars

\* the Observer made by the last start_watch did not start
WatchDown == running /\ observer # NoObserver /\ ost[observer] = "new"

\* C14 (as claimed): whenever start_watch has failed to start the watcher,
\* a watcher is started again later, check_rollover running on every tick
\* and no date change or 09:00 reset being needed for it.
C14_WatchRestartRetried == WatchDown ~> (\E i \in ObsIds : ost[i] = "started")

\* the complete lines of a day's log file: each run of entries that ends
\* with the first entry ending in a newline
CompleteLines(day) ==
  {JoinEntries(logs[day], g[1], g[2]) :
     g \in {r \in (1..Len(logs[day])) \X (1..Len(logs[day])) :
              /\ r[1] <= r[2]
              /\ r[2] \notin open[day]
              /\ (r[1] = 1 \/ (r[1] - 1) \notin open[day])
              /\ \A k \in r[1]..(r[2] - 1) : k \in open[day]}}

\* C20 (as claimed): every sms.send call made carries the notification for
\* a vehicle that is the resolved last bracket group of some complete line
\* of a log file.
C20_SendsCausedByCompleteLine ==
  \A i \in 1..Len(sent) :
    \E d \in Days : \E line \in CompleteLines(d) :
      sent[i][2] = MessageText(last_bracket_value(line))

\* the texts one read of a day's log file can return as a line: a complete
\* line, or a run of entries ending where the file ended at that read
TextsRead(day) ==
  {JoinEntries(logs[day], g[1], g[2]) :
     g \in {r \in (1..Len(logs[day])) \X (1..Len(logs[day])) :
              /\ r[1] <= r[2]
              /\ \A k \in r[1]..(r[2] - 1) : k \in open[day]}}

\* C20 (amended): every sms.send call made carries the notification for a
\* vehicle of VEHICLE_SET that is the resolved last bracket group of a text
\* read from a log file as a line: a complete line, or the part of a line
\* that the writer had written when tail_new_lines read
C20_SendsCausedByTextRead ==
  \A i \in 1..Len(sent) :
    \E d \in Days : \E text \in TextsRead(d) :
      /\ LastGroupResolved(text) \in VEHICLE_SET
      /\ sent[i][2] = MessageText(LastGroupResolved(text))

\* C20 witness: the writer flushed a prefix of a line that ends after the
\* line's first bracket group, the prefix was read, and the notification
\* for the ladder truck, which only that group names, was sent
C20_Witness ==
  /\ 1 \in open[0]
  /\ handed[0][1] >= 1
  /\ sent # <<>>
  /\ sent[1][2] = MessageText(Ladder)

\* C17: subscribers_for_vehicle, called by _handle_line, returns the phones
\* subscribed to the vehicle with the hold off in a store on which every
\* mutation begun has been applied in full (no method is between its steps
\* and the day's file holds the dict), and every send of the call goes to
\* the next phone of that list
C17_SendsToSnapshotUnderLock ==
  [][/\ (hcall.at = "targets" /\ hcall' # hcall) =>
          /\ \A t \in Threads : pc[t] = "idle"
          /\ data_dir[today] = JsonFile(state)
          /\ Range(hcall'.targets) =
               {state[j].phone : j \in {i \in 1..Len(state) :
                   /\ hcall.vehicle \in Range(state[i].vehicles)
                   /\ ~state[i].cancel_hold_until_09}}
          /\ (hcall'.at = "send") = (hcall'.targets # <<>>)
     /\ (hcall.at = "send" /\ hcall' # hcall) =>
          LET calls == IF hcall'.at = "idle" THEN sent' ELSE hcall'.calls
          IN /\ Len(calls) = Len(hcall.calls) + 1
             /\ SubSeq(calls, 1, Len(hcall.calls)) = hcall.calls
             /\ calls[Len(calls)][1] = hcall.targets[Len(calls)]
             /\ (hcall'.at = "idle") = (Len(calls) = Len(hcall.targets))]_vars

\* a send has gone to a phone that was removed after the targets were read
C17_Witness ==
  /\ hcall.at = "send"
  /\ Len(hcall.calls) >= 1
  /\ IndexOf(state, hcall.calls[1][1]) = 0
  /\ lock = NoHolder

=============================================================================
